---- MODULE Spec2Model ----
(***************************************************************************)
(* Model of the NBA playoff predictor's bracket derivation.                *)
(*                                                                         *)
(*   lib/teams-config.ts          initialBracket, updateBracketStructure   *)
(*   components/playoff-bracket   PlayoffBracket: the useEffect that       *)
(*                                derives the displayed bracket from the   *)
(*                                predictions prop                         *)
(*   app/brackets/page.tsx        BracketsPage: the predictions state and  *)
(*                                handlePredictionChange, handleSubmit     *)
(*   app/actions.ts               savePredictionsAction                    *)
(*   lib/mongodb.ts, lib/storage  the cached database connection,          *)
(*                                saveUserPredictions, getUserPredictions  *)
(*                                                                         *)
(* JavaScript values: team and matchup ids are strings; NULL stands for    *)
(* the JS null, the empty string "" is the falsy string.                   *)
(***************************************************************************)
EXTENDS Integers, Sequences, FiniteSets, TLC

VARIABLES
    initialBracket,       \* teams-config.ts: the exported module-level object
    predictions,          \* BracketsPage state / PlayoffBracket prop
    bracket,              \* PlayoffBracket state (the displayed bracket)
    effectPending,        \* the [predictions] effect is scheduled, not yet run
    championSelected,     \* BracketsPage state
    showConfetti,         \* BracketsPage state
    confettiTimerPending, \* a setTimeout(..., 300) of handlePredictionChange is outstanding
    retracted,            \* history: the last effect run emptied a slot that showed a team
    effectError,          \* an exception escaped the effect (the component tree is gone)
    derivations,          \* two runs of the derivation, each with its own newBracket
    builtBracket,         \* value returned by the last updateBracketStructure call
    buildOutcome,         \* "none" | "returned" | "MalformedTemplateError"
    userId,               \* BracketsPage state
    isSubmitting,         \* BracketsPage state
    serverError,          \* BracketsPage state
    route,                \* the page the router shows
    pendingSaves,         \* savePredictionsAction calls of the page that have not returned
    saved,                \* what the page's savePredictionsAction calls have stored
    connectFn,            \* the module whose connection function the process uses
    cached,               \* global.mongoose: { conn, promise }
    attempts,             \* the mongoose.connect calls made so far
    calls,                \* the connectDB / connectToDatabase calls made so far
    jobs,                 \* the microtask queue
    collection,           \* the documents of the Prediction collection
    now,                  \* Date.now() in milliseconds
    latest,               \* history: per user, the prediction set of the last save
    lastGet               \* the last getUserPredictions call and what it returned

submitVars == << userId, isSubmitting, serverError, route, pendingSaves, saved >>

connectVars == << connectFn, cached, attempts, calls, jobs >>

storageVars == << collection, now, latest, lastGet >>

vars == << initialBracket, predictions, bracket, effectPending, championSelected,
           showConfetti, confettiTimerPending, retracted, effectError,
           derivations, builtBracket, buildOutcome,
           submitVars, connectVars, storageVars >>

pageVars == << predictions, bracket, effectPending, championSelected,
               showConfetti, confettiTimerPending, retracted, effectError >>

buildVars == << builtBracket, buildOutcome >>

\* What the page specification leaves alone.
otherVars == << derivations, builtBracket, buildOutcome,
               submitVars, connectVars, storageVars >>

\* What the specifications of the bracket leave alone.
serverVars == << submitVars, connectVars, storageVars >>

(***************************************************************************)
(* Bounds                                                                  *)
(***************************************************************************)
\* Largest number of entries the predictions object holds in the model.
MaxEntries == 2

(***************************************************************************)
(* teams-config.ts                                                         *)
(***************************************************************************)
NULL == "null"

BracketKey ==
    { "E1", "E2", "E3", "E4", "W1", "W2", "W3", "W4",
      "E5", "E6", "W5", "W6", "E7", "W7", "F1" }

\* export type NbaTeamKey / the keys of nbaTeams
NbaTeamKey ==
    { "BOS", "NYK", "MIL", "CLE", "ORL", "IND", "PHI", "MIA",
      "OKC", "DEN", "MIN", "LAC", "DAL", "PHX", "LAL", "NOP" }

MatchupData(r, id, t1, t2, next, pos) ==
    [ round |-> r, matchupId |-> id, team1 |-> t1, team2 |-> t2,
      nextMatchup |-> next, winnerPosition |-> pos ]

\* A plausible wiring slip: E2 is sent to E5.team1, the slot E1 already feeds.
initialBracketDuplicateSlot ==
    [ k \in BracketKey |->
        CASE k = "E1" -> MatchupData(1, "E1", "BOS", "MIA", "E5", "team1")
          [] k = "E2" -> MatchupData(1, "E2", "CLE", "ORL", "E5", "team1")
          [] k = "E3" -> MatchupData(1, "E3", "MIL", "IND", "E6", "team1")
          [] k = "E4" -> MatchupData(1, "E4", "NYK", "PHI", "E6", "team2")
          [] k = "W1" -> MatchupData(1, "W1", "OKC", "NOP", "W5", "team1")
          [] k = "W2" -> MatchupData(1, "W2", "LAC", "DAL", "W5", "team2")
          [] k = "W3" -> MatchupData(1, "W3", "MIN", "PHX", "W6", "team1")
          [] k = "W4" -> MatchupData(1, "W4", "DEN", "LAL", "W6", "team2")
          [] k = "E5" -> MatchupData(2, "E5", NULL, NULL, "E7", "team1")
          [] k = "E6" -> MatchupData(2, "E6", NULL, NULL, "E7", "team2")
          [] k = "W5" -> MatchupData(2, "W5", NULL, NULL, "W7", "team1")
          [] k = "W6" -> MatchupData(2, "W6", NULL, NULL, "W7", "team2")
          [] k = "E7" -> MatchupData(3, "E7", NULL, NULL, "F1", "team1")
          [] k = "W7" -> MatchupData(3, "W7", NULL, NULL, "F1", "team2")
          [] k = "F1" -> MatchupData(4, "F1", NULL, NULL, NULL, NULL) ]

\* A wiring slip that closes a loop: E7 is sent back to E5 instead of F1.
initialBracketCycle ==
    [ initialBracketDuplicateSlot EXCEPT !["E2"].winnerPosition = "team2",
                                         !["E7"].nextMatchup = "E5" ]

\* A numbering slip: E5 is given round 3, the round of the matchup it feeds.
initialBracketRoundSlip ==
    [ initialBracketDuplicateSlot EXCEPT !["E2"].winnerPosition = "team2",
                                         !["E5"].round = 3 ]

\* A seeding slip: W4 is left without its second seed.
initialBracketMissingSeed ==
    [ initialBracketDuplicateSlot EXCEPT !["E2"].winnerPosition = "team2",
                                         !["W4"].team2 = NULL ]

\* A wiring slip: E7 feeds F1 but names no slot.
initialBracketMissingPosition ==
    [ initialBracketDuplicateSlot EXCEPT !["E2"].winnerPosition = "team2",
                                         !["E7"].winnerPosition = NULL ]

\* export const initialBracket: BracketStructure = { ... }
initialBracketLiteral ==
    [ k \in BracketKey |->
        CASE k = "E1" -> MatchupData(1, "E1", "BOS", "MIA", "E5", "team1")
          [] k = "E2" -> MatchupData(1, "E2", "CLE", "ORL", "E5", "team2")
          [] k = "E3" -> MatchupData(1, "E3", "MIL", "IND", "E6", "team1")
          [] k = "E4" -> MatchupData(1, "E4", "NYK", "PHI", "E6", "team2")
          [] k = "W1" -> MatchupData(1, "W1", "OKC", "NOP", "W5", "team1")
          [] k = "W2" -> MatchupData(1, "W2", "LAC", "DAL", "W5", "team2")
          [] k = "W3" -> MatchupData(1, "W3", "MIN", "PHX", "W6", "team1")
          [] k = "W4" -> MatchupData(1, "W4", "DEN", "LAL", "W6", "team2")
          [] k = "E5" -> MatchupData(2, "E5", NULL, NULL, "E7", "team1")
          [] k = "E6" -> MatchupData(2, "E6", NULL, NULL, "E7", "team2")
          [] k = "W5" -> MatchupData(2, "W5", NULL, NULL, "W7", "team1")
          [] k = "W6" -> MatchupData(2, "W6", NULL, NULL, "W7", "team2")
          [] k = "E7" -> MatchupData(3, "E7", NULL, NULL, "F1", "team1")
          [] k = "W7" -> MatchupData(3, "W7", NULL, NULL, "F1", "team2")
          [] k = "F1" -> MatchupData(4, "F1", NULL, NULL, NULL, NULL) ]

(***************************************************************************)
(* JavaScript helpers                                                      *)
(***************************************************************************)
\* !x for the strings and null the derivation tests.
Truthy(x) == x # "" /\ x # NULL

\* Property names every object inherits from Object.prototype: a read
\* initialBracket[name] yields a (truthy) function, whose .nextMatchup is
\* undefined.
InheritedKeys == { "constructor" }

\* Matchup ids a predictions object may carry: the fifteen keys of
\* initialBracket, an id that is no key of it, and an inherited property name.
PredictionKeys == BracketKey \cup { "e1" } \cup InheritedKeys

\* Winners a predictions object may carry: empty, a roster team, a string
\* that is no key of nbaTeams.
PredictionValues == { "", "BOS", "ZZZ" }

\* Object.entries(predictions): the own properties in some order (insertion
\* order in the engine; every order arises from some sequence of updates).
Orders(S) ==
    { o \in [1..Cardinality(S) -> S] : \A i, j \in 1..Cardinality(S) : o[i] = o[j] => i = j }

\* JSON.parse(JSON.stringify(x)): numbers, strings and null survive the round
\* trip unchanged and the result shares no object with x.
JsonClone(b) == [ k \in DOMAIN b |-> b[k] ]

(***************************************************************************)
(* components/playoff-bracket.tsx: the derivation effect                   *)
(***************************************************************************)
\* A lookup that ignores letter case would resolve the foreign id "e1" to E1.
AsBracketKeyIgnoreCase(matchupIdStr) ==
    IF matchupIdStr = "e1" THEN "E1" ELSE matchupIdStr

\* const matchupId = matchupIdStr as BracketKey;  (a cast: no runtime effect)
AsBracketKey(matchupIdStr) == matchupIdStr

\* initialBracket[matchupId] is truthy: an own key or an inherited property.
OriginalMatchupExists(ib, matchupId) ==
    matchupId \in DOMAIN ib \/ matchupId \in InheritedKeys

\* originalMatchup.nextMatchup; undefined (falsy) on an inherited property.
NextMatchupOf(ib, matchupId) ==
    IF matchupId \in DOMAIN ib THEN ib[matchupId].nextMatchup ELSE NULL

\* Slip: the guard tests the winner only, not the looked-up matchup.
SkipsEntryWinnerOnly(ib, matchupId, winningTeamId) == ~Truthy(winningTeamId)

\* if (!originalMatchup || !winningTeamId) return;
SkipsEntry(ib, matchupId, winningTeamId) ==
    ~OriginalMatchupExists(ib, matchupId) \/ ~Truthy(winningTeamId)

\* The callback throws a TypeError: it goes past the guard and reads
\* .nextMatchup of an undefined originalMatchup. (The later reads are of
\* newBracket[nextMatchupId], tested by if (nextMatchup) before use.)
EntryThrows(ib, matchupIdStr, winningTeamId) ==
    /\ ~SkipsEntry(ib, AsBracketKey(matchupIdStr), winningTeamId)
    /\ ~OriginalMatchupExists(ib, AsBracketKey(matchupIdStr))

\* Copy-paste slip: both branches assign team1.
WriteSlotAlwaysTeam1(newBracket, nextMatchupId, positionToUpdate, winningTeamId) ==
    IF positionToUpdate \in { "team1", "team2" }
    THEN [ newBracket EXCEPT ![nextMatchupId].team1 = winningTeamId ]
    ELSE newBracket

\* Slip: the winner is stored in the next matchup's winnerPosition field.
WriteSlotPositionField(newBracket, nextMatchupId, positionToUpdate, winningTeamId) ==
    IF positionToUpdate \in { "team1", "team2" }
    THEN [ newBracket EXCEPT ![nextMatchupId].winnerPosition = winningTeamId ]
    ELSE newBracket

\* if (positionToUpdate === "team1") ... else if (positionToUpdate === "team2") ...
WriteSlot(newBracket, nextMatchupId, positionToUpdate, winningTeamId) ==
    IF positionToUpdate = "team1"
    THEN [ newBracket EXCEPT ![nextMatchupId].team1 = winningTeamId ]
    ELSE IF positionToUpdate = "team2"
         THEN [ newBracket EXCEPT ![nextMatchupId].team2 = winningTeamId ]
         ELSE newBracket

\* The slip the "CORE FIX" comment refers to: the slot is taken from the next
\* matchup's own winnerPosition instead of the predicted matchup's.
ApplyEntryNextPosition(newBracket, ib, matchupIdStr, winningTeamId) ==
    LET matchupId == AsBracketKey(matchupIdStr) IN
    IF ~OriginalMatchupExists(ib, matchupId) \/ ~Truthy(winningTeamId)
    THEN newBracket
    ELSE LET nextMatchupId == NextMatchupOf(ib, matchupId) IN
         IF ~Truthy(nextMatchupId) \/ nextMatchupId \notin DOMAIN newBracket
         THEN newBracket
         ELSE WriteSlot(newBracket, nextMatchupId,
                        newBracket[nextMatchupId].winnerPosition, winningTeamId)

\* Slip: the winner is written into the predicted matchup itself.
ApplyEntryOwnMatchup(newBracket, ib, matchupIdStr, winningTeamId) ==
    LET matchupId == AsBracketKey(matchupIdStr) IN
    IF ~OriginalMatchupExists(ib, matchupId) \/ ~Truthy(winningTeamId)
    THEN newBracket
    ELSE LET nextMatchupId == NextMatchupOf(ib, matchupId) IN
         IF ~Truthy(nextMatchupId) \/ nextMatchupId \notin DOMAIN newBracket
         THEN newBracket
         ELSE WriteSlot(newBracket, matchupId,
                        ib[matchupId].winnerPosition, winningTeamId)

\* Slip: the root's winner is shown in the root's own first slot.
ApplyEntryRootSelf(newBracket, ib, matchupIdStr, winningTeamId) ==
    LET matchupId == AsBracketKey(matchupIdStr) IN
    IF ~OriginalMatchupExists(ib, matchupId) \/ ~Truthy(winningTeamId)
    THEN newBracket
    ELSE LET nextMatchupId == NextMatchupOf(ib, matchupId) IN
         IF ~Truthy(nextMatchupId)
         THEN IF matchupId \in DOMAIN newBracket
              THEN [ newBracket EXCEPT ![matchupId].team1 = winningTeamId ]
              ELSE newBracket
         ELSE IF nextMatchupId \notin DOMAIN newBracket
              THEN newBracket
              ELSE WriteSlot(newBracket, nextMatchupId,
                             ib[matchupId].winnerPosition, winningTeamId)

\* A transitive variant: the winner is carried on through every later round.
RECURSIVE ApplyEntryTransitive(_, _, _, _)
ApplyEntryTransitive(newBracket, ib, matchupIdStr, winningTeamId) ==
    LET matchupId == AsBracketKey(matchupIdStr) IN
    IF ~OriginalMatchupExists(ib, matchupId) \/ ~Truthy(winningTeamId)
    THEN newBracket
    ELSE LET nextMatchupId == NextMatchupOf(ib, matchupId) IN
         IF ~Truthy(nextMatchupId) \/ nextMatchupId \notin DOMAIN newBracket
         THEN newBracket
         ELSE ApplyEntryTransitive(
                  WriteSlot(newBracket, nextMatchupId,
                            ib[matchupId].winnerPosition, winningTeamId),
                  ib, nextMatchupId, winningTeamId)

\* A "validating" variant: a later-round winner is propagated only while it
\* is one of the entrants newBracket shows for its matchup.
ApplyEntryCheckedEntrant(newBracket, ib, matchupIdStr, winningTeamId) ==
    LET matchupId == AsBracketKey(matchupIdStr) IN
    IF ~OriginalMatchupExists(ib, matchupId) \/ ~Truthy(winningTeamId)
    THEN newBracket
    ELSE LET nextMatchupId == NextMatchupOf(ib, matchupId) IN
         IF ~Truthy(nextMatchupId) \/ nextMatchupId \notin DOMAIN newBracket
         THEN newBracket
         ELSE IF /\ ib[matchupId].round > 1
                 /\ winningTeamId # newBracket[matchupId].team1
                 /\ winningTeamId # newBracket[matchupId].team2
              THEN newBracket
              ELSE WriteSlot(newBracket, nextMatchupId,
                             ib[matchupId].winnerPosition, winningTeamId)

\* The body of Object.entries(predictions).forEach(([matchupIdStr, winningTeamIdStr]) => ...)
ApplyEntry(newBracket, ib, matchupIdStr, winningTeamId) ==
    LET matchupId == AsBracketKey(matchupIdStr) IN
    IF SkipsEntry(ib, matchupId, winningTeamId)
    THEN newBracket
    ELSE LET nextMatchupId == NextMatchupOf(ib, matchupId) IN
         \* if (originalMatchup.nextMatchup) { ... if (nextMatchup) { ... } }
         IF ~Truthy(nextMatchupId) \/ nextMatchupId \notin DOMAIN newBracket
         THEN newBracket
         ELSE WriteSlot(newBracket, nextMatchupId,
                        ib[matchupId].winnerPosition, winningTeamId)

\* The forEach loop over the entries of preds, visited in the given order.
RECURSIVE ApplyEntries(_, _, _, _)
ApplyEntries(newBracket, ib, preds, order) ==
    IF Len(order) = 0
    THEN newBracket
    ELSE ApplyEntries(ApplyEntry(newBracket, ib, Head(order), preds[Head(order)]),
                      ib, preds, Tail(order))

\* Incremental variant: the loop starts from the bracket already displayed.
NewBracketFromPrevious(prev, ib) == prev

\* const newBracket = JSON.parse(JSON.stringify(initialBracket))
NewBracketStart(prev, ib) == JsonClone(ib)

\* Some callback of the loop throws, so the effect never reaches setBracket.
EffectThrows(ib, preds, order) ==
    \E i \in 1..Len(order) : EntryThrows(ib, order[i], preds[order[i]])

\* A top-level copy ({ ...initialBracket }) would share every matchup object.
SharedMatchupsShallowCopy(ib) == DOMAIN ib

\* The matchup objects newBracket shares with initialBracket: none, the JSON
\* round trip builds every nested object anew.
SharedMatchups(ib) == {}

\* initialBracket once the loop has written newBracket: a write through a
\* shared matchup object shows in both.
InitialBracketAfter(ib, newBracket) ==
    [ k \in DOMAIN ib |-> IF k \in SharedMatchups(ib) THEN newBracket[k] ELSE ib[k] ]

\* The value the effect hands to setBracket.
EffectResult(prev, ib, preds, order) ==
    ApplyEntries(NewBracketStart(prev, ib), ib, preds, order)

\* const hasChampion: boolean = !!predictions["F1"] || false;
hasChampion(preds) == "F1" \in DOMAIN preds /\ Truthy(preds["F1"])

(***************************************************************************)
(* lib/mongodb.ts                                                          *)
(***************************************************************************)
\* const champion = (userPredictions.F1 as NbaTeamKey) || null;
champion(userPredictions) ==
    IF "F1" \in DOMAIN userPredictions /\ Truthy(userPredictions["F1"])
    THEN userPredictions["F1"]
    ELSE NULL

(***************************************************************************)
(* The brackets page with its PlayoffBracket                               *)
(***************************************************************************)
EmptyPredictions == [ k \in {} |-> "" ]

\* A plausible slip: the spread of prev is left out.
SetEntryWithoutPrev(prev, matchupId, teamId) ==
    [ k \in { matchupId } |-> teamId ]

\* { ...prev, [matchupId]: teamId }
SetEntry(prev, matchupId, teamId) ==
    [ k \in DOMAIN prev \cup { matchupId } |->
        IF k = matchupId THEN teamId ELSE prev[k] ]

\* Some slot that showed a team before the effect ran is empty after it.
SlotRetracted(before, after) ==
    \E k \in DOMAIN before \cap DOMAIN after :
        \/ before[k].team1 # NULL /\ after[k].team1 = NULL
        \/ before[k].team2 # NULL /\ after[k].team2 = NULL

\* The two derivation runs of the interleaved specification.
Runs == { "A", "B" }

\* A run that has not started: its effect is scheduled for predictions preds.
IdleRun(preds) ==
    [ pc |-> "idle", preds |-> preds, remaining |-> << >>,
      newBracket |-> initialBracketLiteral, overlapped |-> FALSE ]

\* useState(null), useState(false), useState(null) of BracketsPage; the
\* router shows the page and no server action has been called.
SubmitInit ==
    /\ userId = NULL
    /\ isSubmitting = FALSE
    /\ serverError = NULL
    /\ route = "/brackets"
    /\ pendingSaves = {}
    /\ saved = {}

\* cached.promise when it is null; attempts are numbered from 1.
NoPromise == 0

\* cached = global.mongoose = { conn: null, promise: null }
ConnectInit ==
    /\ cached = [ conn |-> NULL, promise |-> NoPromise ]
    /\ attempts = << >>
    /\ calls = << >>
    /\ jobs = << >>

Users == { "u1", "u2" }

\* An empty Prediction collection.
StorageInit ==
    /\ collection = << >>
    /\ now = 0
    /\ latest = [ u \in Users |-> {} ]
    /\ lastGet = {}

Init ==
    /\ initialBracket = initialBracketLiteral
    /\ predictions = EmptyPredictions
    /\ bracket = initialBracket
    /\ effectPending = TRUE
    /\ championSelected = FALSE
    /\ showConfetti = FALSE
    /\ confettiTimerPending = FALSE
    /\ retracted = FALSE
    /\ effectError = FALSE
    /\ derivations = [ r \in Runs |-> IdleRun(EmptyPredictions) ]
    /\ builtBracket = initialBracket
    /\ buildOutcome = "none"
    /\ SubmitInit
    /\ connectFn = "connectDB"
    /\ ConnectInit
    /\ StorageInit

\* handlePredictionChange(matchupId, teamId); the effect of the previous
\* render has been flushed before the next event is handled.
handlePredictionChange(matchupId, teamId) ==
    /\ ~effectPending
    /\ ~effectError
    /\ Cardinality(DOMAIN predictions \cup { matchupId }) <= MaxEntries
    /\ predictions' = SetEntry(predictions, matchupId, teamId)
    /\ effectPending' = TRUE
    /\ IF matchupId = "F1"
       THEN championSelected' = TRUE /\ confettiTimerPending' = TRUE
       ELSE UNCHANGED << championSelected, confettiTimerPending >>
    /\ retracted' = FALSE
    /\ UNCHANGED << initialBracket, bracket, showConfetti, effectError, otherVars >>

\* setTimeout(() => { setShowConfetti(true); }, 300). Several outstanding
\* timers behave as one: each only sets showConfetti to true.
ConfettiTimeout ==
    /\ confettiTimerPending
    /\ ~effectError
    /\ showConfetti' = TRUE
    /\ confettiTimerPending' = FALSE
    /\ UNCHANGED << initialBracket, predictions, bracket, effectPending,
                    championSelected, retracted, effectError, otherVars >>

\* useEffect(() => { ... setBracket(newBracket); }, [predictions])
DeriveEffect ==
    /\ effectPending
    /\ ~effectError
    /\ \E order \in Orders(DOMAIN predictions) :
           IF EffectThrows(initialBracket, predictions, order)
           THEN /\ effectError' = TRUE
                /\ UNCHANGED << initialBracket, bracket, retracted >>
           ELSE /\ bracket' = EffectResult(bracket, initialBracket, predictions, order)
                /\ initialBracket' = InitialBracketAfter(initialBracket, bracket')
                /\ retracted' = SlotRetracted(bracket, bracket')
                /\ effectError' = FALSE
    /\ effectPending' = FALSE
    /\ UNCHANGED << predictions, championSelected, showConfetti,
                    confettiTimerPending, otherVars >>

Next ==
    \/ \E matchupId \in PredictionKeys, teamId \in PredictionValues :
           handlePredictionChange(matchupId, teamId)
    \/ ConfettiTimeout
    \/ DeriveEffect

Spec == Init /\ [][Next]_vars

(***************************************************************************)
(* teams-config.ts: building a bracket structure                           *)
(***************************************************************************)
\* return { ...currentBracket, ...newBracketData };
updateBracketStructure(currentBracket, newBracketData) ==
    [ k \in DOMAIN currentBracket \cup DOMAIN newBracketData |->
        IF k \in DOMAIN newBracketData THEN newBracketData[k] ELSE currentBracket[k] ]

\* Replacement matchups a caller may pass for key k: the matchup of ib with
\* one field changed (its wiring, its slot, its round, or a seed removed).
MatchupVariants(ib, k) ==
    { [ ib[k] EXCEPT !.nextMatchup = next ] : next \in DOMAIN ib \cup { NULL } }
        \cup { [ ib[k] EXCEPT !.winnerPosition = pos ] : pos \in { "team1", "team2", NULL } }
        \cup { [ ib[k] EXCEPT !.round = r ] : r \in { ib[m].round : m \in DOMAIN ib } }
        \cup { [ ib[k] EXCEPT !.team1 = NULL ] }

\* Partial<BracketStructure> arguments: none or one replaced matchup.
NewBracketDataInputs(ib) ==
    { [ k \in {} |-> ib["F1"] ] }
        \cup UNION { { [ j \in { k } |-> v ] : v \in MatchupVariants(ib, k) } : k \in DOMAIN ib }

\* A call updateBracketStructure(initialBracket, newBracketData): it returns
\* the merge; no path of it throws.
UpdateBracketStructureCall(newBracketData) ==
    /\ builtBracket' = updateBracketStructure(initialBracket, newBracketData)
    /\ buildOutcome' = "returned"
    /\ UNCHANGED << initialBracket, pageVars, derivations, serverVars >>

NextTemplate ==
    \E newBracketData \in NewBracketDataInputs(initialBracket) :
        UpdateBracketStructureCall(newBracketData)

SpecTemplate == Init /\ [][NextTemplate]_vars

(***************************************************************************)
(* Two derivations interleaved                                             *)
(*                                                                         *)
(* Two runs of the effect body (two mounted PlayoffBracket components, or  *)
(* two calls of the derivation), each over its own predictions, stepping   *)
(* one forEach callback at a time in any interleaving. The engine runs an  *)
(* effect to completion; the finer interleaving here covers it.            *)
(***************************************************************************)
InterleavedKeys == { "E1", "E2", "e1" }

InterleavedValues == { "BOS", "ZZZ" }

\* The prediction sets a run may be given.
InterleavedPredictionSets ==
    UNION { [ S -> InterleavedValues ] : S \in SUBSET InterleavedKeys }

\* newBracket as run r sees it: its own objects, and whatever it shares with
\* initialBracket.
View(r) ==
    [ k \in DOMAIN derivations[r].newBracket |->
        IF k \in SharedMatchups(initialBracket)
        THEN initialBracket[k]
        ELSE derivations[r].newBracket[k] ]

InitInterleaved ==
    /\ initialBracket = initialBracketLiteral
    /\ predictions = EmptyPredictions
    /\ bracket = initialBracket
    /\ effectPending = TRUE
    /\ championSelected = FALSE
    /\ showConfetti = FALSE
    /\ confettiTimerPending = FALSE
    /\ retracted = FALSE
    /\ effectError = FALSE
    /\ derivations \in [ Runs -> { IdleRun(P) : P \in InterleavedPredictionSets } ]
    /\ builtBracket = initialBracket
    /\ buildOutcome = "none"
    /\ SubmitInit
    /\ connectFn = "connectDB"
    /\ ConnectInit
    /\ StorageInit

\* const newBracket = JSON.parse(JSON.stringify(initialBracket)); the loop
\* is entered over Object.entries(predictions).
StartDerivation(r) ==
    /\ derivations[r].pc = "idle"
    /\ \E order \in Orders(DOMAIN derivations[r].preds) :
           derivations' =
               [ derivations EXCEPT ![r].pc = "loop",
                                    ![r].remaining = order,
                                    ![r].newBracket = NewBracketStart(View(r), initialBracket) ]
    /\ UNCHANGED << initialBracket, pageVars, buildVars, serverVars >>

\* One callback of the forEach loop of run r.
StepEntry(r) ==
    /\ derivations[r].pc = "loop"
    /\ Len(derivations[r].remaining) > 0
    /\ LET matchupIdStr == Head(derivations[r].remaining)
           winningTeamId == derivations[r].preds[matchupIdStr]
           overlaps == \E q \in Runs \ { r } : derivations[q].pc = "loop"
       IN  IF EntryThrows(initialBracket, matchupIdStr, winningTeamId)
           THEN /\ derivations' = [ derivations EXCEPT ![r].pc = "failed" ]
                /\ UNCHANGED initialBracket
           ELSE LET after == ApplyEntry(View(r), initialBracket, matchupIdStr, winningTeamId)
                IN  /\ derivations' =
                           [ derivations EXCEPT
                               ![r].newBracket = after,
                               ![r].remaining = Tail(derivations[r].remaining),
                               ![r].overlapped = derivations[r].overlapped \/ overlaps ]
                    /\ initialBracket' = InitialBracketAfter(initialBracket, after)
    /\ UNCHANGED << pageVars, buildVars, serverVars >>

\* setBracket(newBracket)
FinishDerivation(r) ==
    /\ derivations[r].pc = "loop"
    /\ Len(derivations[r].remaining) = 0
    /\ derivations' = [ derivations EXCEPT ![r].pc = "done" ]
    /\ UNCHANGED << initialBracket, pageVars, buildVars, serverVars >>

NextInterleaved ==
    \E r \in Runs :
        \/ StartDerivation(r)
        \/ StepEntry(r)
        \/ FinishDerivation(r)

SpecInterleaved == InitInterleaved /\ [][NextInterleaved]_vars

(***************************************************************************)
(* The brackets page driven by clicks                                      *)
(*                                                                         *)
(* The user clicks team buttons of the displayed bracket and the submit    *)
(* button. A click is handled to completion: the handler, the re-render    *)
(* and the [predictions] effect of PlayoffBracket run before the next      *)
(* event.                                                                  *)
(***************************************************************************)
\* The order in which the bracket literal lists its keys.
KeyOrder ==
    << "E1", "E2", "E3", "E4", "W1", "W2", "W3", "W4",
       "E5", "E6", "W5", "W6", "E7", "W7", "F1" >>

\* Object.entries(predictions) yields the keys in insertion order, one of the
\* permutations Orders enumerates for small objects. For the full bracket the
\* effect is evaluated on the keys in template order.
ClickOrders(S) == { SelectSeq(KeyOrder, LAMBDA k : k \in S) }

\* The team buttons the user of the model clicks: team1 of every matchup, and
\* team2 of the first-round matchup W3.
ClickableSlots ==
    { << m, "team1" >> : m \in BracketKey } \cup { << "W3", "team2" >> }

\* A plausible slip: the onClick handler does not test the slot.
SlotHoldsTeamUntested(b, matchupId, position) == TRUE

\* if (matchup.team1) / if (matchup.team2) of the onClick handlers
SlotHoldsTeam(b, matchupId, position) == Truthy(b[matchupId][position])

\* The team the onClick handler passes to onTeamSelect.
ClickedTeam(b, matchupId, position) == b[matchupId][position]

\* A plausible slip: the requirement of 15 predictions is not tested.
SubmitRejectionNoCount(uid, preds) ==
    IF ~Truthy(uid)
    THEN "User not identified. Please go back and register."
    ELSE IF ~("F1" \in DOMAIN preds /\ Truthy(preds["F1"]))
    THEN "Please select a champion (winner of F1) before submitting."
    ELSE NULL

\* The early returns of handleSubmit: the message it sets, or NULL when it
\* goes on to call the server action.
SubmitRejection(uid, preds) ==
    IF ~Truthy(uid)
    THEN "User not identified. Please go back and register."
    ELSE IF Cardinality(DOMAIN preds) < 15
    THEN "Please complete all matchups before submitting."
    ELSE IF ~("F1" \in DOMAIN preds /\ Truthy(preds["F1"]))
    THEN "Please select a champion (winner of F1) before submitting."
    ELSE NULL

\* The disabled attribute of the submit button.
SubmitDisabled ==
    isSubmitting \/ ~championSelected \/ Cardinality(DOMAIN predictions) < 15

\* savePredictionsAction(userId, predictions); dbThrows: saveUserPredictions
\* throws (the connection or the save fails).
savePredictionsAction(uid, preds, dbThrows) ==
    IF ~Truthy(uid) \/ DOMAIN preds = {}
    THEN [ success |-> FALSE, error |-> "Invalid data provided." ]
    ELSE IF dbThrows
    THEN [ success |-> FALSE, error |-> "Failed to save predictions. Please try again." ]
    ELSE [ success |-> TRUE, error |-> NULL ]

\* A plausible slip: the failure branch does not reset isSubmitting.
AfterSaveResultKeepsSubmitting(result, page) ==
    IF result.success
    THEN [ page EXCEPT !.route = "/summary" ]
    ELSE [ page EXCEPT !.serverError =
                           IF Truthy(result.error) THEN result.error
                           ELSE "An unknown error occurred while saving." ]

\* handleSubmit after the await: what the page's state becomes.
AfterSaveResult(result, page) ==
    IF result.success
    THEN [ page EXCEPT !.route = "/summary" ]
    ELSE [ page EXCEPT !.serverError =
                           IF Truthy(result.error) THEN result.error
                           ELSE "An unknown error occurred while saving.",
                       !.isSubmitting = FALSE ]

\* useEffect(() => { ... }, [router]): the stored user id is read once.
LoadUser(storedUserId) ==
    /\ route = "/brackets"
    /\ userId = NULL
    /\ IF ~Truthy(storedUserId)
       THEN route' = "/" /\ UNCHANGED userId
       ELSE userId' = storedUserId /\ UNCHANGED route
    /\ UNCHANGED << initialBracket, pageVars, derivations, buildVars,
                    isSubmitting, serverError, pendingSaves, saved,
                    connectVars, storageVars >>

\* A click on the button of slot `position` of matchup matchupId: onClick,
\* handleTeamSelect, handlePredictionChange, then the effect of PlayoffBracket.
ClickTeam(matchupId, position) ==
    /\ route = "/brackets"
    /\ userId # NULL
    /\ ~effectPending
    /\ ~effectError
    /\ SlotHoldsTeam(bracket, matchupId, position)
    /\ LET teamId == ClickedTeam(bracket, matchupId, position)
           newPredictions == SetEntry(predictions, matchupId, teamId)
       IN  /\ predictions' = newPredictions
           /\ IF matchupId = "F1"
              THEN championSelected' = TRUE /\ confettiTimerPending' = TRUE
              ELSE UNCHANGED << championSelected, confettiTimerPending >>
           /\ \E order \in ClickOrders(DOMAIN newPredictions) :
                  IF EffectThrows(initialBracket, newPredictions, order)
                  THEN /\ effectError' = TRUE
                       /\ UNCHANGED << initialBracket, bracket, retracted >>
                  ELSE /\ bracket' = EffectResult(bracket, initialBracket, newPredictions, order)
                       /\ initialBracket' = InitialBracketAfter(initialBracket, bracket')
                       /\ retracted' = SlotRetracted(bracket, bracket')
                       /\ effectError' = FALSE
    /\ effectPending' = FALSE
    /\ UNCHANGED << showConfetti, otherVars >>

\* handleSubmit up to the await. The handler tests again what the button's
\* disabled attribute tests, so it is taken in every state of the page; the
\* button keeps a second handler from running while a call is in flight.
handleSubmit ==
    /\ route = "/brackets"
    /\ ~isSubmitting
    /\ LET rejection == SubmitRejection(userId, predictions)
       IN  IF rejection # NULL
           THEN /\ serverError' = rejection
                /\ UNCHANGED << isSubmitting, pendingSaves >>
           ELSE /\ isSubmitting' = TRUE
                /\ serverError' = NULL
                /\ pendingSaves' = { [ userId |-> userId, predictions |-> predictions ] }
    /\ UNCHANGED << initialBracket, pageVars, derivations, buildVars,
                    userId, route, saved, connectVars, storageVars >>

\* savePredictionsAction returns and handleSubmit resumes.
SavePredictionsActionReturns(dbThrows) ==
    /\ route = "/brackets"
    /\ \E call \in pendingSaves :
           LET result == savePredictionsAction(call.userId, call.predictions, dbThrows)
               page == AfterSaveResult(result,
                           [ isSubmitting |-> isSubmitting, serverError |-> serverError,
                             route |-> route ])
           IN  /\ saved' = IF result.success THEN saved \cup { call } ELSE saved
               /\ isSubmitting' = page.isSubmitting
               /\ serverError' = page.serverError
               /\ route' = page.route
               /\ pendingSaves' = pendingSaves \ { call }
    /\ UNCHANGED << initialBracket, pageVars, derivations, buildVars,
                    userId, connectVars, storageVars >>

NextClicks ==
    \/ DeriveEffect
    \/ \E storedUserId \in { NULL, "u1" } : LoadUser(storedUserId)
    \/ \E slot \in ClickableSlots : ClickTeam(slot[1], slot[2])
    \/ ConfettiTimeout
    \/ handleSubmit
    \/ \E dbThrows \in BOOLEAN : SavePredictionsActionReturns(dbThrows)

SpecClicks == Init /\ [][NextClicks]_vars

(***************************************************************************)
(* The cached database connection                                          *)
(*                                                                         *)
(* connectDB (lib/mongodb.ts) and connectToDatabase (lib/storage.ts) over  *)
(* global.mongoose. JavaScript runs one job at a time: the synchronous     *)
(* part of a call up to its await, a promise reaction, or the continuation *)
(* of a call after its await. Jobs run in the order they were queued; the  *)
(* environment may queue a new call, and mongoose.connect may settle,      *)
(* between any two jobs.                                                   *)
(***************************************************************************)
\* Largest number of connectDB / connectToDatabase calls.
MaxCalls == 3

ConnectFns == { "connectDB", "connectToDatabase" }

\* What mongoose.connect resolves with: the mongoose module instance.
MongooseInstance == "mongoose"

\* A plausible slip: the cached connection is not looked at.
UsesCachedConnNever(cache) == FALSE

\* if (cached.conn) return cached.conn;
UsesCachedConn(cache) == cache.conn # NULL

\* if (!cached.promise) { cached.promise = mongoose.connect(...) ... }
StartsAttempt(cache) == cache.promise = NoPromise

\* connectDB chains .catch((error) => { cached.promise = null; throw error; })
\* on the promise it caches; connectToDatabase does not.
CatchHandlerResets(fn) == fn = "connectDB"

\* A plausible slip: the catch block rethrows without resetting the promise.
AfterAwaitErrorKeepsPromise(cache) == cache

\* catch (e) { cached.promise = null; throw e; }
AfterAwaitError(cache) == [ cache EXCEPT !.promise = NoPromise ]

\* cached.conn = await cached.promise;
AfterAwaitValue(cache, value) == [ cache EXCEPT !.conn = value ]

NewAttempt == [ connect |-> "pending", promise |-> "pending", waiters |-> << >> ]

NewCall == [ pc |-> "queued", awaits |-> NoPromise, started |-> NoPromise,
             result |-> NULL ]

Job(kind, id) == [ kind |-> kind, id |-> id ]

RECURSIVE ResumeJobs(_)
ResumeJobs(waiters) ==
    IF waiters = << >> THEN << >>
    ELSE << Job("resume", Head(waiters)) >> \o ResumeJobs(Tail(waiters))

othersOfConnect == << initialBracket, pageVars, derivations, buildVars,
                      submitVars, storageVars, connectFn >>

InitConnect ==
    /\ initialBracket = initialBracketLiteral
    /\ predictions = EmptyPredictions
    /\ bracket = initialBracket
    /\ effectPending = TRUE
    /\ championSelected = FALSE
    /\ showConfetti = FALSE
    /\ confettiTimerPending = FALSE
    /\ retracted = FALSE
    /\ effectError = FALSE
    /\ derivations = [ r \in Runs |-> IdleRun(EmptyPredictions) ]
    /\ builtBracket = initialBracket
    /\ buildOutcome = "none"
    /\ SubmitInit
    /\ connectFn \in ConnectFns
    /\ ConnectInit
    /\ StorageInit

\* Some code calls the connection function: the call is the next thing a
\* queued job does.
Call ==
    /\ Len(calls) < MaxCalls
    /\ calls' = Append(calls, NewCall)
    /\ jobs' = Append(jobs, Job("call", Len(calls) + 1))
    /\ UNCHANGED << cached, attempts, othersOfConnect >>

\* The promise of mongoose.connect settles; the reactions chained on it are
\* queued.
ConnectSettles(a, ok) ==
    /\ a \in DOMAIN attempts
    /\ attempts[a].connect = "pending"
    /\ attempts' = [ attempts EXCEPT ![a].connect = IF ok THEN "connected" ELSE "failed" ]
    /\ jobs' = Append(jobs, Job("settle", a))
    /\ UNCHANGED << cached, calls, othersOfConnect >>

\* The body of connectDB / connectToDatabase up to its await.
RunCall(c) ==
    IF UsesCachedConn(cached)
    THEN /\ calls' = [ calls EXCEPT ![c].pc = "returned", ![c].result = cached.conn ]
         /\ jobs' = Tail(jobs)
         /\ UNCHANGED << cached, attempts >>
    ELSE LET starts == StartsAttempt(cached)
             a == IF starts THEN Len(attempts) + 1 ELSE cached.promise
             known == IF starts THEN Append(attempts, NewAttempt) ELSE attempts
             settled == known[a].promise # "pending"
         IN  /\ cached' = [ cached EXCEPT !.promise = a ]
             /\ attempts' = IF settled THEN known
                            ELSE [ known EXCEPT ![a].waiters = Append(@, c) ]
             /\ calls' = [ calls EXCEPT ![c].pc = "awaiting", ![c].awaits = a,
                                        ![c].started = IF starts THEN a ELSE NoPromise ]
             /\ jobs' = IF settled THEN Append(Tail(jobs), Job("resume", c))
                        ELSE Tail(jobs)

\* The reactions on the promise of mongoose.connect: .then passes the
\* instance on, connectDB's .catch resets cached.promise and rethrows; the
\* cached promise settles and the calls awaiting it are queued.
RunSettle(a) ==
    LET failed == attempts[a].connect = "failed"
    IN  /\ cached' = IF failed /\ CatchHandlerResets(connectFn)
                     THEN [ cached EXCEPT !.promise = NoPromise ]
                     ELSE cached
        /\ attempts' = [ attempts EXCEPT
                           ![a].promise = IF failed THEN "rejected" ELSE "fulfilled",
                           ![a].waiters = << >> ]
        /\ jobs' = Tail(jobs) \o ResumeJobs(attempts[a].waiters)
        /\ UNCHANGED calls

\* The call continues after await cached.promise.
RunResume(c) ==
    LET a == calls[c].awaits
    IN  /\ IF attempts[a].promise = "rejected"
           THEN /\ cached' = AfterAwaitError(cached)
                /\ calls' = [ calls EXCEPT ![c].pc = "threw", ![c].result = "error" ]
           ELSE LET after == AfterAwaitValue(cached, MongooseInstance)
                IN  /\ cached' = after
                    /\ calls' = [ calls EXCEPT
                                    ![c].pc = IF after.conn = NULL THEN "threw" ELSE "returned",
                                    ![c].result = IF after.conn = NULL THEN "error" ELSE after.conn ]
        /\ jobs' = Tail(jobs)
        /\ UNCHANGED attempts

\* The engine runs the job at the head of the queue.
RunJob ==
    /\ jobs # << >>
    /\ LET job == Head(jobs)
       IN  CASE job.kind = "call" -> RunCall(job.id)
             [] job.kind = "settle" -> RunSettle(job.id)
             [] job.kind = "resume" -> RunResume(job.id)
    /\ UNCHANGED othersOfConnect

NextConnect ==
    \/ Call
    \/ \E a \in DOMAIN attempts, ok \in BOOLEAN : ConnectSettles(a, ok)
    \/ RunJob

SpecConnect == InitConnect /\ [][NextConnect]_vars

(***************************************************************************)
(* Saved predictions                                                       *)
(*                                                                         *)
(* saveUserPredictions and getUserPredictions over the Prediction          *)
(* collection. createdAt is a Date: the clock read in milliseconds when    *)
(* the document is saved.                                                  *)
(***************************************************************************)
\* Largest number of documents in the collection.
MaxDocs == 2

\* Largest value of the millisecond clock.
MaxTime == 1

\* The prediction sets the callers save.
SavedPredictionSets ==
    { [ k \in { "F1" } |-> "BOS" ], [ k \in { "F1" } |-> "OKC" ],
      [ k \in { "E1" } |-> "MIA" ] }

\* new Map(Object.entries(userPredictions)): the entries, as stored.
MapOfEntries(userPredictions) ==
    { << k, userPredictions[k] >> : k \in DOMAIN userPredictions }

\* mapToRecord: record[key] = value for every entry of the stored map.
mapToRecord(map) ==
    [ k \in { e[1] : e \in map } |-> (CHOOSE e \in map : e[1] = k)[2] ]

\* new Prediction({ userId, predictions: predictionsMap, champion }) as saved.
PredictionDocument(u, userPredictions, time) ==
    [ userId |-> u, predictions |-> MapOfEntries(userPredictions),
      champion |-> champion(userPredictions), createdAt |-> time ]

\* Prediction.findOne({ userId }).sort({ createdAt: -1 }): a document of the
\* user with the greatest createdAt; among documents with equal createdAt
\* the sort returns any.
FindOneLatest(coll, u) ==
    { i \in DOMAIN coll :
        /\ coll[i].userId = u
        /\ \A j \in DOMAIN coll :
               coll[j].userId = u => coll[j].createdAt <= coll[i].createdAt }

\* The millisecond clock advances.
Tick ==
    /\ now < MaxTime
    /\ now' = now + 1
    /\ UNCHANGED << initialBracket, pageVars, derivations, buildVars,
                    submitVars, connectVars, collection, latest, lastGet >>

\* saveUserPredictions(userId, userPredictions) with the database connected.
saveUserPredictions(u, userPredictions) ==
    /\ Len(collection) < MaxDocs
    /\ collection' = Append(collection, PredictionDocument(u, userPredictions, now))
    /\ latest' = [ latest EXCEPT ![u] = { userPredictions } ]
    /\ UNCHANGED << initialBracket, pageVars, derivations, buildVars,
                    submitVars, connectVars, now, lastGet >>

\* getUserPredictions(userId): null (the empty set here) when no document is
\* found, the document's predictions as a record otherwise.
getUserPredictions(u) ==
    /\ \E result \in IF FindOneLatest(collection, u) = {}
                     THEN { {} }
                     ELSE { { mapToRecord(collection[i].predictions) } :
                              i \in FindOneLatest(collection, u) } :
           lastGet' = { [ userId |-> u, result |-> result, latest |-> latest[u] ] }
    /\ UNCHANGED << initialBracket, pageVars, derivations, buildVars,
                    submitVars, connectVars, collection, now, latest >>

NextStorage ==
    \/ Tick
    \/ \E u \in Users, userPredictions \in SavedPredictionSets :
           saveUserPredictions(u, userPredictions)
    \/ \E u \in Users : getUserPredictions(u)

SpecStorage == Init /\ [][NextStorage]_vars

(***************************************************************************)
(* Vocabulary of the properties                                            *)
(***************************************************************************)
Positions == { "team1", "team2" }

Slot(b, matchupId, position) ==
    IF position = "team1" THEN b[matchupId].team1 ELSE b[matchupId].team2

\* P holds a non-empty winner for matchup M.
HasWinner(P, M) == M \in DOMAIN P /\ P[M] # ""

\* The matchups wired into slot (N, position).
Feeders(ib, N, position) ==
    { M \in DOMAIN ib : ib[M].nextMatchup = N /\ ib[M].winnerPosition = position }

Round1 == { M \in DOMAIN initialBracket : initialBracket[M].round = 1 }

LaterRounds == { M \in DOMAIN initialBracket : initialBracket[M].round > 1 }

Without(P, keys) == [ k \in DOMAIN P \ keys |-> P[k] ]

\* The derivation run on its own, from a fresh copy of ib, over P in order o.
FreshDerivation(ib, P, o) == ApplyEntries(JsonClone(ib), ib, P, o)

\* The effect has run on the current predictions: bracket is its result.
Derived == ~effectPending

(***************************************************************************)
(* C1  One-hop propagation: once the effect has run, every matchup M of    *)
(* initialBracket with a next matchup N and winnerPosition s, for which    *)
(* predictions holds a non-empty winner w, has N.s = w in the bracket,     *)
(* whether or not predictions has an entry for N.                          *)
(***************************************************************************)
C1_OneHopPropagation ==
    Derived =>
        \A M \in DOMAIN initialBracket :
            (initialBracket[M].nextMatchup # NULL /\ HasWinner(predictions, M))
                => Slot(bracket, initialBracket[M].nextMatchup,
                        initialBracket[M].winnerPosition) = predictions[M]

C1_Witness ==
    /\ Derived
    /\ HasWinner(predictions, "E2")
    /\ "E5" \notin DOMAIN predictions
    /\ bracket["E5"].team2 = predictions["E2"]

(***************************************************************************)
(* C2  Order independence: the bracket the effect produced equals the one  *)
(* the loop produces for every other order of the entries of predictions.  *)
(***************************************************************************)
C2_OrderIndependence ==
    Derived =>
        \A o \in Orders(DOMAIN predictions) :
            EffectResult(bracket, initialBracket, predictions, o) = bracket

C2_Witness ==
    /\ Derived
    /\ HasWinner(predictions, "E1")
    /\ HasWinner(predictions, "E2")
    /\ predictions["E1"] # predictions["E2"]
    /\ bracket["E5"].team1 = predictions["E1"]
    /\ bracket["E5"].team2 = predictions["E2"]

(***************************************************************************)
(* C3  Idempotence: when the effect runs again on predictions it has       *)
(* already derived the bracket from, the bracket does not change, and      *)
(* applying the entries once more to the result changes nothing either.    *)
(***************************************************************************)
DerivedFromCurrent ==
    \E o \in Orders(DOMAIN predictions) :
        bracket = EffectResult(bracket, initialBracket, predictions, o)

C3_Idempotence ==
    [][ (effectPending /\ ~effectPending' /\ DerivedFromCurrent)
            => /\ bracket' = bracket
               /\ \A o \in Orders(DOMAIN predictions) :
                      ApplyEntries(bracket', initialBracket, predictions, o) = bracket' ]_vars

\* The effect is about to run a second time on the same predictions.
C3_Witness ==
    /\ effectPending
    /\ DerivedFromCurrent
    /\ HasWinner(predictions, "E1")
    /\ HasWinner(predictions, "E2")
    /\ bracket["E5"].team1 = predictions["E1"]
    /\ bracket["E5"].team2 = predictions["E2"]

(***************************************************************************)
(* C4  History independence: once the effect has run, the bracket equals   *)
(* the derivation from initialBracket and the current predictions alone,   *)
(* and every filled later-round slot is produced by a current entry.       *)
(***************************************************************************)
C4_HistoryIndependence ==
    Derived =>
        /\ \A o \in Orders(DOMAIN predictions) :
               bracket = FreshDerivation(initialBracket, predictions, o)
        /\ \A N \in LaterRounds, s \in Positions :
               Slot(bracket, N, s) # NULL
                   => \E M \in Feeders(initialBracket, N, s) :
                          HasWinner(predictions, M) /\ predictions[M] = Slot(bracket, N, s)

\* A winner shown before the last change is gone after the effect ran.
C4_Witness ==
    /\ Derived
    /\ retracted
    /\ "E1" \in DOMAIN predictions
    /\ predictions["E1"] = ""
    /\ bracket["E5"].team1 = NULL

(***************************************************************************)
(* C5  Round-1 fixed seeds: in every state the round-1 matchups of the     *)
(* bracket carry the seeds of initialBracket.                              *)
(***************************************************************************)
C5_Round1FixedSeeds ==
    \A M \in Round1 :
        /\ bracket[M].team1 = initialBracketLiteral[M].team1
        /\ bracket[M].team2 = initialBracketLiteral[M].team2
        /\ Truthy(bracket[M].team1)
        /\ Truthy(bracket[M].team2)

C5_Witness ==
    /\ Derived
    /\ HasWinner(predictions, "E1")
    /\ predictions["E1"] = "ZZZ"
    /\ bracket["E1"].team1 = "BOS"
    /\ bracket["E1"].team2 = "MIA"
    /\ bracket["E5"].team1 = "ZZZ"

(***************************************************************************)
(* C6  Slot provenance: once the effect has run, every slot of every       *)
(* later-round matchup has exactly one feeding matchup, is empty exactly   *)
(* when predictions has no non-empty winner for it, and otherwise holds    *)
(* that winner.                                                            *)
(***************************************************************************)
C6_SlotProvenance ==
    Derived =>
        \A N \in LaterRounds, s \in Positions :
            /\ Cardinality(Feeders(initialBracket, N, s)) = 1
            /\ \A M \in Feeders(initialBracket, N, s) :
                   Slot(bracket, N, s) =
                       IF HasWinner(predictions, M) THEN predictions[M] ELSE NULL

\* predictions = {E1: w} only: the other slot of E5 stays empty.
C6_Witness ==
    /\ Derived
    /\ DOMAIN predictions = { "E1" }
    /\ predictions["E1"] # ""
    /\ bracket["E5"].team1 = predictions["E1"]
    /\ bracket["E5"].team2 = NULL

(***************************************************************************)
(* C7  No transitive propagation: once the effect has run, the entry for a *)
(* matchup M accounts for at most the slot (nextMatchup(M),                *)
(* winnerPosition(M)): the bracket differs from the derivation without     *)
(* that entry in no other place. With entries for round-1 matchups only,   *)
(* every slot of rounds 3 and 4 is empty.                                  *)
(***************************************************************************)
OnlyTargetSlotDiffers(b, without, M) ==
    \A N \in DOMAIN b :
        b[N] # without[N]
            => /\ M \in DOMAIN initialBracket
               /\ N = initialBracket[M].nextMatchup
               /\ \A s \in Positions :
                      Slot(b, N, s) # Slot(without, N, s)
                          => s = initialBracket[M].winnerPosition

C7_NoTransitivePropagation ==
    Derived =>
        /\ \A M \in DOMAIN predictions :
               \A o \in Orders(DOMAIN predictions \ { M }) :
                   OnlyTargetSlotDiffers(
                       bracket,
                       FreshDerivation(initialBracket, Without(predictions, { M }), o),
                       M)
        /\ DOMAIN predictions \subseteq Round1
               => \A N \in DOMAIN initialBracket :
                      initialBracket[N].round >= 3
                          => bracket[N].team1 = NULL /\ bracket[N].team2 = NULL

C7_Witness ==
    /\ Derived
    /\ DOMAIN predictions \subseteq Round1
    /\ HasWinner(predictions, "E1")
    /\ bracket["E5"].team1 = predictions["E1"]
    /\ bracket["E7"].team1 = NULL
    /\ bracket["F1"].team1 = NULL

(***************************************************************************)
(* C8  Unknown-matchup tolerance: once the effect has run, the bracket     *)
(* equals the derivation from the entries whose id is a key of             *)
(* initialBracket; with no such entry it equals the derivation from the    *)
(* empty set.                                                              *)
(***************************************************************************)
UnknownIds(P) == DOMAIN P \ DOMAIN initialBracket

C8_UnknownMatchupTolerance ==
    Derived =>
        /\ \A o \in Orders(DOMAIN predictions \ UnknownIds(predictions)) :
               bracket = FreshDerivation(initialBracket,
                                         Without(predictions, UnknownIds(predictions)), o)
        /\ DOMAIN predictions \subseteq UnknownIds(predictions)
               => bracket = FreshDerivation(initialBracket, EmptyPredictions, << >>)

C8_Witness ==
    /\ Derived
    /\ "e1" \in DOMAIN predictions
    /\ predictions["e1"] = "BOS"
    /\ HasWinner(predictions, "E2")
    /\ bracket["E5"].team1 = NULL
    /\ bracket["E5"].team2 = predictions["E2"]

(***************************************************************************)
(* C9  Root prediction: once the effect has run, the bracket equals the    *)
(* derivation without the entry for F1 (no slot, F1's own included, is     *)
(* changed by it); the champion is the non-empty winner predicted for F1   *)
(* and is absent otherwise.                                                *)
(***************************************************************************)
C9_RootPredictionOnlyChampion ==
    Derived =>
        /\ \A o \in Orders(DOMAIN predictions \ { "F1" }) :
               bracket = FreshDerivation(initialBracket, Without(predictions, { "F1" }), o)
        /\ HasWinner(predictions, "F1") => champion(predictions) = predictions["F1"]
        /\ ~HasWinner(predictions, "F1") => champion(predictions) = NULL
        /\ hasChampion(predictions) <=> champion(predictions) # NULL

C9_Witness ==
    /\ Derived
    /\ HasWinner(predictions, "F1")
    /\ HasWinner(predictions, "E7")
    /\ predictions["F1"] # predictions["E7"]
    /\ bracket["F1"].team1 = predictions["E7"]
    /\ bracket["F1"].team2 = NULL
    /\ champion(predictions) = predictions["F1"]

(***************************************************************************)
(* Template invariants of the specification                                *)
(***************************************************************************)
DuplicateSlotTarget(t) ==
    \E M1, M2 \in DOMAIN t :
        /\ M1 # M2
        /\ t[M1].nextMatchup # NULL
        /\ t[M1].nextMatchup = t[M2].nextMatchup
        /\ t[M1].winnerPosition = t[M2].winnerPosition

\* The matchup reached from M after n steps along nextMatchup (NULL past the root).
RECURSIVE Follow(_, _, _)
Follow(t, M, n) ==
    IF n = 0 \/ M = NULL THEN M ELSE Follow(t, t[M].nextMatchup, n - 1)

HasCycle(t) ==
    \E M \in DOMAIN t : Follow(t, M, Cardinality(DOMAIN t)) # NULL

NonIncreasingRounds(t) ==
    \E M \in DOMAIN t :
        /\ t[M].nextMatchup # NULL
        /\ t[t[M].nextMatchup].round <= t[M].round

Round1MissingSeed(t) ==
    \E M \in DOMAIN t :
        t[M].round = 1 /\ (t[M].team1 = NULL \/ t[M].team2 = NULL)

Malformed(t) ==
    DuplicateSlotTarget(t) \/ HasCycle(t) \/ NonIncreasingRounds(t) \/ Round1MissingSeed(t)

(***************************************************************************)
(* C10  Malformed template rejection: a bracket structure that has two     *)
(* matchups with the same nextMatchup and winnerPosition, a cycle,         *)
(* non-increasing rounds or a round-1 matchup without a seed is never      *)
(* returned by its construction: the construction fails with               *)
(* MalformedTemplateError.                                                 *)
(***************************************************************************)
C10_MalformedTemplateRejected ==
    (buildOutcome # "none" /\ Malformed(builtBracket))
        => buildOutcome = "MalformedTemplateError"

(***************************************************************************)
(* C11  initialBracket is a single rooted tree: F1 is the only matchup     *)
(* without a nextMatchup, every other matchup names a key of               *)
(* initialBracket as its nextMatchup, and following nextMatchup from any   *)
(* matchup reaches F1 (no cycle).                                          *)
(***************************************************************************)
Roots(t) == { M \in DOMAIN t : t[M].nextMatchup = NULL }

C11_SingleRootedTree ==
    /\ Roots(initialBracket) = { "F1" }
    /\ \A M \in DOMAIN initialBracket \ { "F1" } :
           initialBracket[M].nextMatchup \in DOMAIN initialBracket
    /\ \A M \in DOMAIN initialBracket :
           \E n \in 0..Cardinality(DOMAIN initialBracket) :
               Follow(initialBracket, M, n) = "F1"

C11_Witness ==
    /\ Derived
    /\ initialBracket["F1"].nextMatchup = NULL
    /\ Follow(initialBracket, "W4", 1) = "W6"
    /\ Follow(initialBracket, "W4", 3) = "F1"
    /\ Follow(initialBracket, "W4", 4) = NULL

(***************************************************************************)
(* C12  No two distinct matchups of initialBracket have the same           *)
(* (nextMatchup, winnerPosition) pair: every slot of every matchup has at  *)
(* most one matchup feeding it, so the derivation writes it from at most   *)
(* one entry.                                                              *)
(***************************************************************************)
\* The entries of P whose winner the derivation writes into slot (N, s).
Writers(ib, P, N, s) ==
    { M \in DOMAIN P \cap DOMAIN ib :
        HasWinner(P, M) /\ ib[M].nextMatchup = N /\ ib[M].winnerPosition = s }

C12_NoSharedSlotTarget ==
    /\ \A M1, M2 \in DOMAIN initialBracket :
           ( /\ M1 # M2
             /\ initialBracket[M1].nextMatchup = initialBracket[M2].nextMatchup )
               => initialBracket[M1].winnerPosition # initialBracket[M2].winnerPosition
    /\ \A N \in DOMAIN initialBracket, s \in Positions :
           /\ Cardinality(Feeders(initialBracket, N, s)) <= 1
           /\ Cardinality(Writers(initialBracket, predictions, N, s)) <= 1

C12_Witness ==
    /\ Derived
    /\ Writers(initialBracket, predictions, "E5", "team1") = { "E1" }
    /\ Writers(initialBracket, predictions, "E5", "team2") = { "E2" }
    /\ bracket["E5"].team1 = predictions["E1"]
    /\ bracket["E5"].team2 = predictions["E2"]

(***************************************************************************)
(* C13  For every matchup M of initialBracket with nextMatchup N,          *)
(* round(N) = round(M) + 1: rounds strictly increase along every edge.     *)
(***************************************************************************)
C13_RoundsIncreaseByOne ==
    \A M \in DOMAIN initialBracket :
        initialBracket[M].nextMatchup # NULL
            => initialBracket[initialBracket[M].nextMatchup].round
                   = initialBracket[M].round + 1

C13_Witness ==
    /\ Derived
    /\ initialBracket["E3"].round = 1
    /\ initialBracket[Follow(initialBracket, "E3", 1)].round = 2
    /\ initialBracket[Follow(initialBracket, "E3", 2)].round = 3
    /\ initialBracket[Follow(initialBracket, "E3", 3)].round = 4

(***************************************************************************)
(* C14  Every round-1 matchup of initialBracket has team1 and team2 set to *)
(* keys of nbaTeams; every matchup of a later round has both null.         *)
(***************************************************************************)
C14_SeedsOnlyInRound1 ==
    \A M \in DOMAIN initialBracket :
        IF initialBracket[M].round = 1
        THEN /\ initialBracket[M].team1 \in NbaTeamKey
             /\ initialBracket[M].team2 \in NbaTeamKey
        ELSE /\ initialBracket[M].team1 = NULL
             /\ initialBracket[M].team2 = NULL

C14_Witness ==
    /\ Derived
    /\ initialBracket["W4"].round = 1
    /\ initialBracket["W4"].team2 = "LAL"
    /\ initialBracket["W6"].round = 2
    /\ initialBracket["W6"].team2 = NULL
    /\ bracket["W6"].team2 # NULL

(***************************************************************************)
(* C15  In initialBracket winnerPosition is team1 or team2 exactly when    *)
(* nextMatchup is not null, and is null only for F1; every entry the       *)
(* derivation propagates therefore has a slot to write.                    *)
(***************************************************************************)
C15_PositionIffNextMatchup ==
    /\ \A M \in DOMAIN initialBracket :
           /\ initialBracket[M].winnerPosition \in Positions
                  <=> initialBracket[M].nextMatchup # NULL
           /\ initialBracket[M].winnerPosition = NULL <=> M = "F1"
    /\ \A M \in DOMAIN predictions \cap DOMAIN initialBracket :
           Truthy(NextMatchupOf(initialBracket, M))
               => initialBracket[M].winnerPosition \in Positions

C15_Witness ==
    /\ Derived
    /\ HasWinner(predictions, "E7")
    /\ HasWinner(predictions, "F1")
    /\ initialBracket["E7"].winnerPosition = "team1"
    /\ initialBracket["F1"].winnerPosition = NULL
    /\ bracket["F1"].team1 = predictions["E7"]

(***************************************************************************)
(* C16  The derivation never fails: no exception escapes the effect for    *)
(* any prediction set, entries under ids that are no key of initialBracket *)
(* fill no slot, a winner that is no key of nbaTeams is written unchanged  *)
(* into the next matchup's slot, and the bracket produced has every        *)
(* matchup of initialBracket.                                              *)
(***************************************************************************)
C16_DerivationNeverFails ==
    /\ ~effectError
    /\ \A o \in Orders(DOMAIN predictions) :
           ~EffectThrows(initialBracket, predictions, o)
    /\ Derived =>
           /\ DOMAIN bracket = DOMAIN initialBracket
           /\ \A M \in DOMAIN predictions \cap DOMAIN initialBracket :
                  ( /\ HasWinner(predictions, M)
                    /\ predictions[M] \notin NbaTeamKey
                    /\ initialBracket[M].nextMatchup # NULL )
                      => Slot(bracket, initialBracket[M].nextMatchup,
                              initialBracket[M].winnerPosition) = predictions[M]
           /\ \A N \in LaterRounds, s \in Positions :
                  Writers(initialBracket, predictions, N, s) = {}
                      => Slot(bracket, N, s) = NULL

C16_Witness ==
    /\ Derived
    /\ ~effectError
    /\ "e1" \in DOMAIN predictions
    /\ predictions["e1"] = "BOS"
    /\ "E1" \in DOMAIN predictions
    /\ predictions["E1"] = "ZZZ"
    /\ bracket["E5"].team1 = "ZZZ"

(***************************************************************************)
(* C17  The derivation never modifies initialBracket: in every state,      *)
(* after any number of effect runs, initialBracket equals the value it was *)
(* defined with.                                                           *)
(***************************************************************************)
C17_InitialBracketUnchanged ==
    initialBracket = initialBracketLiteral

C17_Witness ==
    /\ Derived
    /\ bracket["E5"].team1 = "BOS"
    /\ bracket["E7"].team2 = "ZZZ"
    /\ initialBracket["E5"].team1 = NULL
    /\ initialBracket["E7"].team2 = NULL

(***************************************************************************)
(* C18  Two interleaved derivations do not interfere: whenever a run is    *)
(* done, the bracket it handed to setBracket is the one its own prediction *)
(* set produces when derived alone, whatever the other run did and does.   *)
(***************************************************************************)
C18_InterleavedRunsIndependent ==
    \A r \in Runs :
        derivations[r].pc = "done"
            => \A o \in Orders(DOMAIN derivations[r].preds) :
                   View(r) = FreshDerivation(initialBracketLiteral, derivations[r].preds, o)

\* Both runs are done, their loops overlapped, and they wrote different
\* winners into the same slot of their own brackets.
C18_Witness ==
    /\ \A r \in Runs : derivations[r].pc = "done" /\ derivations[r].overlapped
    /\ derivations["A"].preds # derivations["B"].preds
    /\ View("A")["E5"].team1 = "BOS"
    /\ View("B")["E5"].team1 = "ZZZ"
    /\ View("A")["E5"].team2 = NULL
    /\ View("B")["E5"].team2 = "BOS"

(***************************************************************************)
(* C19  Removing a round-1 prediction does not retract a later winner:     *)
(* when predictions holds an entry for a round-1 matchup M and a non-empty *)
(* winner w for M's next matchup N, the derivation without M's entry still *)
(* has w in the slot (nextMatchup(N), winnerPosition(N)), while the slot   *)
(* of N that M feeds is empty.                                             *)
(***************************************************************************)
C19_RemovalDoesNotRetract ==
    Derived =>
        \A M \in Round1 \cap DOMAIN predictions :
            LET N == initialBracket[M].nextMatchup IN
            HasWinner(predictions, N)
                => /\ Slot(bracket, initialBracket[N].nextMatchup,
                           initialBracket[N].winnerPosition) = predictions[N]
                   /\ \A o \in Orders(DOMAIN predictions \ { M }) :
                          LET after == FreshDerivation(initialBracket,
                                                       Without(predictions, { M }), o)
                          IN  /\ Slot(after, initialBracket[N].nextMatchup,
                                      initialBracket[N].winnerPosition) = predictions[N]
                              /\ Slot(after, N, initialBracket[M].winnerPosition) = NULL

C19_Witness ==
    /\ Derived
    /\ HasWinner(predictions, "E1")
    /\ HasWinner(predictions, "E5")
    /\ bracket["E5"].team1 = predictions["E1"]
    /\ bracket["E7"].team1 = predictions["E5"]
    /\ \E o \in Orders(DOMAIN predictions \ { "E1" }) :
           LET after == FreshDerivation(initialBracket, Without(predictions, { "E1" }), o)
           IN  after["E5"].team1 = NULL /\ after["E7"].team1 = predictions["E5"]

(***************************************************************************)
(* C20  The bracket is complete: in every state it has exactly the fifteen *)
(* matchup ids of initialBracket, each matchup with the round, matchupId,  *)
(* nextMatchup and winnerPosition of initialBracket; only team1 and team2  *)
(* of later-round matchups may differ.                                     *)
(***************************************************************************)
C20_DerivedBracketComplete ==
    /\ DOMAIN bracket = BracketKey
    /\ Cardinality(DOMAIN bracket) = 15
    /\ \A k \in DOMAIN bracket :
           /\ bracket[k].round = initialBracketLiteral[k].round
           /\ bracket[k].matchupId = k
           /\ bracket[k].nextMatchup = initialBracketLiteral[k].nextMatchup
           /\ bracket[k].winnerPosition = initialBracketLiteral[k].winnerPosition
           /\ bracket[k] # initialBracketLiteral[k] => k \in LaterRounds

C20_Witness ==
    /\ Derived
    /\ bracket["E5"].team1 = "BOS"
    /\ bracket["E5"].team2 = "ZZZ"
    /\ bracket["E5"].round = 2
    /\ bracket["E5"].nextMatchup = "E7"
    /\ bracket["E5"].winnerPosition = "team1"

(***************************************************************************)
(* Vocabulary of the properties of the click-driven page                   *)
(***************************************************************************)
\* P holds a winner for every matchup of initialBracket, F1 included.
Complete(P) ==
    \A m \in DOMAIN initialBracket : m \in DOMAIN P /\ Truthy(P[m])

\* The two entrants the bracket b shows for matchup m.
Entrants(b, m) == { b[m].team1, b[m].team2 } \ { NULL }

\* The matchups whose recorded winner this step sets or changes.
Picked(m) == m \in DOMAIN predictions' /\
             (m \notin DOMAIN predictions \/ predictions'[m] # predictions[m])

(***************************************************************************)
(* C21  Submitting only a complete bracket: every savePredictionsAction    *)
(* call of the page carries a user id and a prediction set with a winner   *)
(* for each of the 15 matchups of initialBracket, F1 included; a submit    *)
(* without user id, with fewer picks or without champion sets serverError, *)
(* starts no call and saves nothing; and where the submit button is        *)
(* enabled the handler does make the call.                                 *)
(***************************************************************************)
C21_SubmitOnlyComplete ==
    [][ /\ \A call \in pendingSaves' \cup saved' :
               Truthy(call.userId) /\ Complete(call.predictions)
        /\ (handleSubmit /\ ~(Truthy(userId) /\ Complete(predictions))) =>
               /\ serverError' # NULL
               /\ pendingSaves' = pendingSaves
               /\ saved' = saved
        /\ ~Complete(predictions) => pendingSaves' = {} /\ saved' = saved
        /\ (handleSubmit /\ ~SubmitDisabled) =>
               pendingSaves' = { [ userId |-> userId, predictions |-> predictions ] }
      ]_vars

\* A call is in flight with the full bracket of the page.
C21_Witness ==
    /\ pendingSaves # {}
    /\ \A call \in pendingSaves :
           call.userId = "u1" /\ DOMAIN call.predictions = BracketKey
    /\ isSubmitting
    /\ serverError = NULL

(***************************************************************************)
(* C22  As stated: once the effect has run, the recorded winner of every   *)
(* predicted matchup is one of the two entrants the bracket shows for that *)
(* matchup.                                                                *)
(***************************************************************************)
C22_WinnersAmongShownEntrants ==
    Derived =>
        \A m \in DOMAIN predictions : predictions[m] \in Entrants(bracket, m)

(***************************************************************************)
(* C22  As amended: every click records as winner a team the bracket shows *)
(* as an entrant of that matchup at the time of the click, and after the   *)
(* click every team shown in a later-round slot is the recorded winner of  *)
(* the matchup that feeds that slot.                                       *)
(***************************************************************************)
C22_WinnersShownWhenClicked ==
    [][ /\ \A m \in BracketKey :
               Picked(m) => predictions'[m] \in Entrants(bracket, m)
        /\ predictions' # predictions =>
               \A N \in LaterRounds, s \in Positions :
                   Slot(bracket', N, s) # NULL =>
                       \E M \in Feeders(initialBracket, N, s) :
                           /\ M \in DOMAIN predictions'
                           /\ predictions'[M] = Slot(bracket', N, s)
      ]_vars

\* W3 was re-picked after W6: W6 keeps MIN as winner while it shows PHX.
C22_Witness ==
    /\ Derived
    /\ "W3" \in DOMAIN predictions /\ predictions["W3"] = "PHX"
    /\ "W6" \in DOMAIN predictions /\ predictions["W6"] = "MIN"
    /\ bracket["W6"].team1 = "PHX"

(***************************************************************************)
(* C23  Clicks record teams only: every recorded winner is a team (never   *)
(* the empty value of an unfilled slot), and a later-round matchup has a   *)
(* prediction only if at least one of the matchups feeding it has one.     *)
(***************************************************************************)
C23_PredictionNeedsFeeder ==
    /\ \A m \in DOMAIN predictions : Truthy(predictions[m])
    /\ \A N \in LaterRounds \cap DOMAIN predictions :
           \E s \in Positions :
               \E M \in Feeders(initialBracket, N, s) : M \in DOMAIN predictions

\* The final is predicted, and the West semifinal that feeds it is not.
C23_Witness ==
    /\ "F1" \in DOMAIN predictions
    /\ "E7" \in DOMAIN predictions
    /\ "W7" \notin DOMAIN predictions

(***************************************************************************)
(* C24  A prediction change sets one entry: every step that changes        *)
(* predictions sets the entry of one matchup m to a team t shown for m,    *)
(* keeps every other entry as it was, and removes none; so the set of      *)
(* predicted matchups only grows.                                          *)
(***************************************************************************)
C24_OneEntrySetNoneRemoved ==
    [][ /\ DOMAIN predictions \subseteq DOMAIN predictions'
        /\ predictions' # predictions =>
               \E m \in BracketKey :
                   \E t \in Entrants(bracket, m) :
                       predictions' =
                           [ k \in DOMAIN predictions \cup { m } |->
                               IF k = m THEN t ELSE predictions[k] ]
      ]_vars

\* A re-pick among other entries: W3 was changed to PHX, W6 and E1 stand.
C24_Witness ==
    /\ DOMAIN predictions = { "E1", "W3", "W6" }
    /\ predictions["W3"] = "PHX"
    /\ predictions["W6"] = "MIN"
    /\ predictions["E1"] = "BOS"

(***************************************************************************)
(* C25  When the server action returns: on failure serverError is set,     *)
(* isSubmitting is false again, predictions is unchanged, the page stays   *)
(* and the submit button is enabled again; on success isSubmitting stays   *)
(* true and the router shows /summary.                                     *)
(***************************************************************************)
C25_SaveFailureAllowsRetry ==
    [][ (pendingSaves # {} /\ pendingSaves' = {}) =>
            IF saved' # saved
            THEN /\ isSubmitting'
                 /\ route' = "/summary"
            ELSE /\ serverError' # NULL
                 /\ ~isSubmitting'
                 /\ predictions' = predictions
                 /\ route' = "/brackets"
                 /\ ~SubmitDisabled'
      ]_vars

\* The save failed: the message is shown and the full bracket can be
\* submitted again.
C25_Witness ==
    /\ serverError = "Failed to save predictions. Please try again."
    /\ ~isSubmitting
    /\ pendingSaves = {}
    /\ saved = {}
    /\ Complete(predictions)
    /\ ~SubmitDisabled

(***************************************************************************)
(* Vocabulary of the properties of the cached connection                   *)
(***************************************************************************)
\* The attempts whose mongoose.connect has not settled.
Connecting == { a \in DOMAIN attempts : attempts[a].connect = "pending" }

\* The calls that await attempt a and have not continued.
Awaiting(a) ==
    { c \in DOMAIN calls : calls[c].pc = "awaiting" /\ calls[c].awaits = a }

\* The calls whose body starts in this step.
Entered(c) == calls[c].pc = "queued" /\ calls'[c].pc # "queued"

(***************************************************************************)
(* C26  The cached connection is reused: from a state in which cached.conn *)
(* is set, cached.conn never changes, no step starts a mongoose.connect,   *)
(* and every call that runs returns cached.conn at once.                   *)
(***************************************************************************)
C26_CachedConnectionReused ==
    [][ cached.conn # NULL =>
            /\ cached'.conn = cached.conn
            /\ Len(attempts') = Len(attempts)
            /\ \A c \in DOMAIN calls :
                   Entered(c) =>
                       /\ calls'[c].pc = "returned"
                       /\ calls'[c].result = cached.conn
                       /\ calls'[c].started = NoPromise
      ]_vars

\* The first call connected, a later call got the cached connection without
\* awaiting anything.
C26_Witness ==
    /\ cached.conn = MongooseInstance
    /\ Len(attempts) = 1
    /\ \E c \in DOMAIN calls :
           /\ calls[c].pc = "returned"
           /\ calls[c].awaits = NoPromise
           /\ calls[c].result = MongooseInstance

(***************************************************************************)
(* C27  As stated: overlapping calls share one pending attempt; at no time *)
(* are two mongoose.connect attempts pending, whatever the interleaving of *)
(* calls, failures and retries.                                            *)
(***************************************************************************)
C27_SingleAttemptAtATime ==
    Cardinality(Connecting) <= 1

C29_GetReturnsLatestSave ==
    \A g \in lastGet : g.result = g.latest

====
